---- MODULE Spec2Model ----
(***************************************************************************)
(* State-machine model of main.py (Open-LianLi-RGB-Driver): the persisted  *)
(* configuration, the RGBDevice object with its connect / send_color_packet*)
(* recovery cycle, and the two commands manual_set_color and scan_devices. *)
(* Python strings are sequences of one-character strings; bytes objects are*)
(* sequences of integers in 0..255.  The USB stack and the file system are *)
(* the environment: every call into them picks one of its outcomes.        *)
(***************************************************************************)
EXTENDS Integers, Sequences, FiniteSets, TLC

\* Bounds of the model.
MaxCmds == 2
MaxSends == 2
MaxDevices == 2
MaxColorLen == 3

(***************************************************************************)
(* Constants of main.py                                                    *)
(***************************************************************************)
DEFAULT_PACKET_HEADER ==
  << "0", "1", "8", "5", "0", "0", "0", "0", "0", "0", "1", "4", "0", "3", "0", "4", "0", "0" >>

\* Mutant of DEFAULT_PACKET_FOOTER: three more zeros at the end.
DEFAULT_PACKET_FOOTER_107 ==
  [i \in 1..107 |-> IF i = 27 THEN "1" ELSE IF i = 28 THEN "8" ELSE "0"]

DEFAULT_PACKET_FOOTER ==
  << "0", "0", "0", "0", "0", "0", "0", "0", "0", "0", "0", "0", "0", "0", "0", "0", "0", "0", "0", "0", "0", "0", "0", "0", "0", "0",
     "1", "8", "0", "0", "0", "0", "0", "0", "0", "0", "0", "0", "0", "0", "0", "0", "0", "0", "0", "0", "0", "0", "0", "0", "0", "0",
     "0", "0", "0", "0", "0", "0", "0", "0", "0", "0", "0", "0", "0", "0", "0", "0", "0", "0", "0", "0", "0", "0", "0", "0", "0", "0",
     "0", "0", "0", "0", "0", "0", "0", "0", "0", "0", "0", "0", "0", "0", "0", "0", "0", "0", "0", "0", "0", "0", "0", "0", "0", "0" >>

\* save_config(vid, pid, endpoint=2, ...) and config.get("endpoint", 2)
DEFAULT_ENDPOINT == 2

(***************************************************************************)
(* Python values: None, str and int, and a dict key that is not present.   *)
(***************************************************************************)
NoneV == [t |-> "none", s |-> << >>, n |-> 0]
StrV(str) == [t |-> "str", s |-> str, n |-> 0]
IntV(i) == [t |-> "int", s |-> << >>, n |-> i]
Absent == [t |-> "absent", s |-> << >>, n |-> 0]

\* Python truth value of a value (None, "" and 0 are false).
Truthy(v) ==
  CASE v.t = "str" -> Len(v.s) > 0
    [] v.t = "int" -> v.n # 0
    [] OTHER -> FALSE

\* The empty dict {} and dict.get(key, default).
EmptyDict ==
  [vid |-> Absent, pid |-> Absent, endpoint |-> Absent,
   packet_header |-> Absent, packet_footer |-> Absent]

\* Mutant of DictGet: the stored value is ignored.
DictGet_AlwaysDefault(d, key, default) == default

DictGet(d, key, default) == IF d[key].t = "absent" THEN default ELSE d[key]

(***************************************************************************)
(* Characters and hexadecimal decoding                                     *)
(***************************************************************************)
HexDigits ==
  {"0", "1", "2", "3", "4", "5", "6", "7", "8", "9",
   "a", "b", "c", "d", "e", "f", "A", "B", "C", "D", "E", "F"}

IsHexDigit(c) == c \in HexDigits

HexVal(c) ==
  CASE c = "0" -> 0 [] c = "1" -> 1 [] c = "2" -> 2 [] c = "3" -> 3
    [] c = "4" -> 4 [] c = "5" -> 5 [] c = "6" -> 6 [] c = "7" -> 7
    [] c = "8" -> 8 [] c = "9" -> 9
    [] c \in {"a", "A"} -> 10 [] c \in {"b", "B"} -> 11
    [] c \in {"c", "C"} -> 12 [] c \in {"d", "D"} -> 13
    [] c \in {"e", "E"} -> 14 [] c \in {"f", "F"} -> 15
    [] OTHER -> 16

\* ASCII white space, which bytes.fromhex skips between two bytes.
IsSpace(c) == c \in {" ", "\t", "\n", "\r", "\f"}

\* str.lower() on one character.
LowerChar(c) ==
  CASE c = "A" -> "a" [] c = "B" -> "b" [] c = "C" -> "c" [] c = "D" -> "d"
    [] c = "E" -> "e" [] c = "F" -> "f" [] c = "G" -> "g"
    [] OTHER -> c

Lower(str) == [i \in 1..Len(str) |-> LowerChar(str[i])]

\* str.replace("#", ""): every '#' of the string is removed.
\* Mutant of RemoveHash: the '#' is not removed.
RemoveHash_KeepAll(str) == str

RemoveHash(str) == SelectSeq(str, LAMBDA c : c # "#")

\* bytes.fromhex(str) reads the string left to right: before each byte it
\* skips white space, then takes two adjacent hexadecimal digits.  A character
\* is therefore the first digit of a byte exactly when it is not white space
\* and an even number of non-space characters precede it.
IsByteStart(str, j) ==
  /\ ~IsSpace(str[j])
  /\ Cardinality({k \in 1..(j - 1) : ~IsSpace(str[k])}) % 2 = 0

\* bytes.fromhex(str); ok = FALSE stands for ValueError.
FromHex(str) ==
  LET n == Len(str)
      starts == SelectSeq([j \in 1..n |-> j], LAMBDA j : IsByteStart(str, j))
      valid == \A i \in 1..Len(starts) :
                 /\ IsHexDigit(str[starts[i]])
                 /\ starts[i] + 1 <= n
                 /\ IsHexDigit(str[starts[i] + 1])
  IN IF valid
       THEN [ok |-> TRUE,
             bytes |-> [i \in 1..Len(starts) |->
                          16 * HexVal(str[starts[i]]) + HexVal(str[starts[i] + 1])]]
       ELSE [ok |-> FALSE, bytes |-> << >>]

\* int(str, 16) on the identifier strings of the model: an optional 0x / 0X
\* prefix followed by one or more hexadecimal digits; ok = FALSE stands for
\* ValueError.
RECURSIVE HexNumber(_, _)
HexNumber(str, acc) ==
  IF str = << >> THEN acc ELSE HexNumber(Tail(str), 16 * acc + HexVal(Head(str)))

IntBase16(str) ==
  LET body == IF Len(str) >= 2 /\ str[1] = "0" /\ str[2] \in {"x", "X"}
              THEN SubSeq(str, 3, Len(str)) ELSE str
  IN IF body # << >> /\ \A i \in 1..Len(body) : IsHexDigit(body[i])
     THEN [ok |-> TRUE, n |-> HexNumber(body, 0)]
     ELSE [ok |-> FALSE, n |-> 0]

(***************************************************************************)
(* State                                                                   *)
(***************************************************************************)
VARIABLES
  pc,          \* position of the running command / call ("idle" between commands)
  mode,        \* who drives the RGBDevice: "set" (manual_set_color), "scan",
               \* "api" (a caller using the class directly), "none" at start
  ncmds,       \* commands and API sessions started so far
  nsends,      \* send_color_packet calls made on the current RGBDevice
  configFile,  \* content of CONFIG_FILE: [kind, d]
  args,        \* argparse namespace of the set command: [vid, pid, color]
  config,      \* value returned by load_config: [kind, d]
  locals,      \* vid, pid, endpoint, header, footer of manual_set_color
  self,        \* the RGBDevice: [vid, pid, endpoint, dev] (dev = 0 is None)
  call,        \* parameters of the current send_color_packet call
  packet_data, \* bytes built by the current send_color_packet call
  usb,         \* history of the calls made into the USB library
  result,      \* how the last send_color_packet ended: "none" while running,
               \* "True", "False" or "raised"
  exc,         \* the last exception raised ("none" when there is none)
  exit,        \* how the last command ended: "none", "running", "returned",
               \* "crashed" (an exception left the command unhandled)
  output,      \* diagnostics printed by the current command
  listing,     \* device lines printed by scan_devices
  visible,     \* history: the devices usb.core.find(find_all=True) yielded to
               \* the last scan_devices
  lastGood     \* history: what the send used whose success wrote the current
               \* content of CONFIG_FILE (set = FALSE when no send wrote it)

vars ==
  << pc, mode, ncmds, nsends, configFile, args, config, locals, self, call,
     packet_data, usb, result, exc, exit, output, listing, visible, lastGood >>

Dict(d) == [kind |-> "dict", d |-> d]

NoLocals ==
  [vid |-> NoneV, pid |-> NoneV, endpoint |-> NoneV, header |-> NoneV, footer |-> NoneV]

NoSelf == [vid |-> 0, pid |-> 0, endpoint |-> NoneV, dev |-> 0]

NoCall == [hex_color |-> << >>, header |-> << >>, footer |-> << >>]

NoArgs == [vid |-> NoneV, pid |-> NoneV, color |-> << >>]

Msg(m, e) == [msg |-> m, e |-> e]

NoLastGood ==
  [set |-> FALSE, vid |-> 0, pid |-> 0, endpoint |-> NoneV,
   header |-> << >>, footer |-> << >>]

(***************************************************************************)
(* Inputs of the model                                                     *)
(***************************************************************************)
\* --vid / --pid on the command line (type=str, None when not given).
ArgVids ==
  {NoneV, StrV(<< "0", "4", "1", "6" >>), StrV(<< "z", "z" >>),
   StrV(<< "1", "2", "3", "4", "5" >>)}
ArgPids == {NoneV, StrV(<< "7", "3", "9", "9" >>), StrV(<< >>)}

\* The color argument.
Colors ==
  { << "f", "f", "0", "0", "0", "0" >>,
    << "#", "F", "F", "0", "0", "0", "0" >>,
    << "G", "G", "0", "0", "0", "0" >>,
    << "f", "f", "0" >>,
    << "f", "f", "#", "0", "0", "#", "0", "0" >>,
    << "f", "f", " ", "0", "0", " ", "0", "0" >>,
    << "f", "f", " ", "0", "0", "0", "0" >> }

\* What CONFIG_FILE can hold before the first command.
FullRecord ==
  [vid |-> IntV(1046), pid |-> IntV(29593), endpoint |-> IntV(DEFAULT_ENDPOINT),
   packet_header |-> StrV(DEFAULT_PACKET_HEADER),
   packet_footer |-> StrV(DEFAULT_PACKET_FOOTER)]

IdsOnlyRecord == [EmptyDict EXCEPT !.vid = IntV(1046), !.pid = IntV(29593)]

TemplateOnlyRecord ==
  [EmptyDict EXCEPT !.endpoint = IntV(1),
                    !.packet_header = StrV(<< "0", "1" >>),
                    !.packet_footer = StrV(<< "0" >>)]

File(kind, d) == [kind |-> kind, d |-> d]

InitialFiles ==
  { File("absent", EmptyDict), File("unreadable", EmptyDict),
    File("corrupt", EmptyDict), File("nonrecord", EmptyDict),
    File("record", FullRecord), File("record", IdsOnlyRecord),
    File("record", TemplateOnlyRecord) }

\* Devices usb.core.find(find_all=True) can yield: the product string is
\* "named" (readable), "noname" (iProduct = 0) or "unreadable" (get_string raises).
DeviceKinds == {"named", "noname", "unreadable"}

DeviceLists ==
  UNION {[1..k -> DeviceKinds] : k \in 0..MaxDevices}

Init ==
  /\ pc = "idle"
  /\ mode = "none"
  /\ ncmds = 0
  /\ nsends = 0
  /\ configFile \in InitialFiles
  /\ args = NoArgs
  /\ config = Dict(EmptyDict)
  /\ locals = NoLocals
  /\ self = NoSelf
  /\ call = NoCall
  /\ packet_data = << >>
  /\ usb = << >>
  /\ result = "none"
  /\ exc = "none"
  /\ exit = "none"
  /\ output = << >>
  /\ listing = << >>
  /\ visible = << >>
  /\ lastGood = NoLastGood

(***************************************************************************)
(* Helpers of the actions                                                  *)
(***************************************************************************)
\* A new command or API session may start when nothing is running.
AtRest == pc \in {"idle", "ready"}

\* Entry of the USB history: op is "find", "set_configuration" or "write",
\* h the handle acted on (for find: the handle returned, 0 for None or raise).
UsbCall(op, h, res) ==
  [op |-> op, h |-> h, res |-> res, vid |-> self.vid, pid |-> self.pid,
   ep |-> self.endpoint, data |-> IF op = "write" THEN packet_data ELSE << >>,
   send |-> nsends]

\* usb.core.find returns a new Device object on every successful call.
NewHandle == Cardinality({i \in DOMAIN usb : usb[i].op = "find" /\ usb[i].res = "dev"}) + 1

\* An exception leaves the command unhandled: the process dies with a traceback.
Crash(e) ==
  /\ pc' = "idle"
  /\ exit' = "crashed"
  /\ exc' = e

\* manual_set_color: except Exception as e: print(f"Error: {e}")
CaughtByCommand(e) ==
  /\ pc' = "idle"
  /\ exit' = "returned"
  /\ exc' = e
  /\ output' = Append(output, Msg("Error", e))

\* An exception leaves RGBDevice.__init__ (inSend = FALSE) or
\* send_color_packet (inSend = TRUE) and reaches the caller.
Propagate(e, inSend) ==
  /\ result' = IF inSend THEN "raised" ELSE result
  /\ IF mode = "set"
       THEN CaughtByCommand(e)
       ELSE /\ pc' = IF inSend THEN "ready" ELSE "idle"
            /\ exc' = e
            /\ UNCHANGED << exit, output >>

\* send_color_packet returns val to its caller.
SendReturns(val) ==
  /\ result' = val
  /\ pc' = IF mode = "set" THEN "check_success" ELSE "ready"

\* Mutant of StartsRecovery: the first write is guarded by except Exception.
StartsRecovery_AnyError(r) == r # "ok"

\* except usb.core.USBError around the first write: the errors that start the
\* recovery cycle.
StartsRecovery(r) == r = "USBError"

\* Mutant of IsNotFound: the None check is missing.
IsNotFound_Never(r) == FALSE

\* if self.dev is None: raise ValueError(... not found ...)
IsNotFound(r) == r = "none"

\* Mutant of ClaimFailed: the error of set_configuration is swallowed.
ClaimFailed_Never(r) == FALSE

\* self.dev.set_configuration() raising ends connect with that exception.
ClaimFailed(r) == r # "ok"

\* Mutant of ShouldSave: the configuration is saved whatever the send returned.
ShouldSave_Always(success) == TRUE

\* if success: ... save_config(...)
ShouldSave(success) == success = "True"

\* Mutant of ConfigData: save_config(vid, pid) is called with its defaults.
ConfigData_Defaults(vid, pid, endpoint, header, footer) ==
  [vid |-> vid, pid |-> pid, endpoint |-> IntV(DEFAULT_ENDPOINT),
   packet_header |-> StrV(DEFAULT_PACKET_HEADER),
   packet_footer |-> StrV(DEFAULT_PACKET_FOOTER)]

\* Mutant of ConfigData: vid and pid are stored in each other's field.
ConfigData_SwapIds(vid, pid, endpoint, header, footer) ==
  [vid |-> pid, pid |-> vid, endpoint |-> endpoint,
   packet_header |-> header, packet_footer |-> footer]

\* The dict save_config writes to CONFIG_FILE.
ConfigData(vid, pid, endpoint, header, footer) ==
  [vid |-> vid, pid |-> pid, endpoint |-> endpoint,
   packet_header |-> header, packet_footer |-> footer]

\* hex_color.replace("#", "").lower(); header + hex_color + footer
FullPayload(hex_color, header, footer) ==
  header \o Lower(RemoveHash(hex_color)) \o footer

\* int(v, 16) if isinstance(v, str) else v
ParseIdentifier(v) ==
  IF v.t = "str" THEN IntBase16(v.s) ELSE [ok |-> TRUE, n |-> v.n]

(***************************************************************************)
(* manual_set_color                                                        *)
(***************************************************************************)
\* The set command starts: python main.py set <color> [--vid X] [--pid Y]
manual_set_color(a) ==
  /\ AtRest
  /\ ncmds < MaxCmds
  /\ pc' = "load_config"
  /\ mode' = "set"
  /\ ncmds' = ncmds + 1
  /\ nsends' = 0
  /\ args' = a
  /\ config' = Dict(EmptyDict)
  /\ locals' = NoLocals
  /\ self' = NoSelf
  /\ call' = NoCall
  /\ packet_data' = << >>
  /\ usb' = << >>
  /\ result' = "none"
  /\ exc' = "none"
  /\ exit' = "running"
  /\ output' = << >>
  /\ listing' = << >>
  /\ visible' = << >>
  /\ UNCHANGED << configFile, lastGood >>

\* config = load_config()
load_config ==
  /\ pc = "load_config"
  /\ CASE configFile.kind = "absent" ->
            /\ config' = Dict(EmptyDict)
            /\ pc' = "resolve"
            /\ UNCHANGED << exc, exit, output >>
       [] configFile.kind = "unreadable" ->
            \* open() raises OSError; only json.JSONDecodeError is caught
            /\ Crash("OSError")
            /\ UNCHANGED << config, output >>
       [] configFile.kind = "corrupt" ->
            /\ config' = Dict(EmptyDict)
            /\ output' = Append(output, Msg("Warning: Config file is corrupted", "none"))
            /\ pc' = "resolve"
            /\ UNCHANGED << exc, exit >>
       [] configFile.kind = "nonrecord" ->
            \* json.load returns a list, a number, a string ...
            /\ config' = [kind |-> "list", d |-> EmptyDict]
            /\ pc' = "resolve"
            /\ UNCHANGED << exc, exit, output >>
       [] configFile.kind = "record" ->
            /\ config' = Dict(configFile.d)
            /\ pc' = "resolve"
            /\ UNCHANGED << exc, exit, output >>
  /\ UNCHANGED << mode, ncmds, nsends, configFile, args, locals, self, call,
                  packet_data, usb, result, listing, visible,
                  lastGood >>

\* Lines 107-121: priority CLI args > config file > fail.
resolve ==
  /\ pc = "resolve"
  /\ IF config.kind # "dict"
       THEN \* config.get raises AttributeError outside the try block
            /\ Crash("AttributeError")
            /\ UNCHANGED << locals, output >>
       ELSE LET vid == IF Truthy(args.vid) THEN args.vid
                       ELSE DictGet(config.d, "vid", NoneV)
                pid == IF Truthy(args.pid) THEN args.pid
                       ELSE DictGet(config.d, "pid", NoneV)
            IN IF ~Truthy(vid) \/ ~Truthy(pid)
                 THEN /\ output' = Append(output, Msg("Error: VID and PID are missing.", "none"))
                      /\ pc' = "idle"
                      /\ exit' = "returned"
                      /\ UNCHANGED << locals, exc >>
                 ELSE /\ locals' =
                           [vid |-> vid, pid |-> pid,
                            endpoint |-> DictGet(config.d, "endpoint", IntV(DEFAULT_ENDPOINT)),
                            header |-> DictGet(config.d, "packet_header",
                                               StrV(DEFAULT_PACKET_HEADER)),
                            footer |-> DictGet(config.d, "packet_footer",
                                               StrV(DEFAULT_PACKET_FOOTER))]
                      /\ output' = Append(output, Msg("Connecting", "none"))
                      /\ pc' = "init"
                      /\ UNCHANGED << exc, exit >>
  /\ UNCHANGED << mode, ncmds, nsends, configFile, args, config, self, call,
                  packet_data, usb, result, listing, visible,
                  lastGood >>

(***************************************************************************)
(* RGBDevice                                                               *)
(***************************************************************************)
\* A caller other than manual_set_color constructs an RGBDevice.
RGBDevice(vid, pid, endpoint) ==
  /\ AtRest
  /\ ncmds < MaxCmds
  /\ pc' = "init"
  /\ mode' = "api"
  /\ ncmds' = ncmds + 1
  /\ nsends' = 0
  /\ args' = NoArgs
  /\ config' = Dict(EmptyDict)
  /\ locals' = [NoLocals EXCEPT !.vid = vid, !.pid = pid, !.endpoint = endpoint]
  /\ self' = NoSelf
  /\ call' = NoCall
  /\ packet_data' = << >>
  /\ usb' = << >>
  /\ result' = "none"
  /\ exc' = "none"
  /\ exit' = "none"
  /\ output' = << >>
  /\ listing' = << >>
  /\ visible' = << >>
  /\ UNCHANGED << configFile, lastGood >>

\* RGBDevice.__init__ up to the call of self.connect()
RGBDevice_init ==
  /\ pc = "init"
  /\ LET v == ParseIdentifier(locals.vid)
         p == ParseIdentifier(locals.pid)
     IN IF v.ok /\ p.ok
          THEN /\ self' = [vid |-> v.n, pid |-> p.n, endpoint |-> locals.endpoint, dev |-> 0]
               /\ pc' = "ctor_find"
               /\ UNCHANGED << result, exc, exit, output >>
          ELSE /\ Propagate("ValueError: invalid literal for int()", FALSE)
               /\ UNCHANGED self
  /\ UNCHANGED << mode, ncmds, nsends, configFile, args, config, locals, call,
                  packet_data, usb, listing, visible,
                  lastGood >>

\* An exception raised inside connect(): it leaves __init__, or it is caught by
\* the except Exception of the recovery cycle, which prints and returns False.
ConnectRaises(e) ==
  IF pc = "ctor_find" \/ pc = "ctor_claim"
    THEN Propagate(e, FALSE)
    ELSE /\ output' = Append(output, Msg("Failed to send packet", e))
         /\ exc' = e
         /\ SendReturns("False")
         /\ UNCHANGED exit

\* connect: self.dev = usb.core.find(idVendor=self.vid, idProduct=self.pid)
\* and the None check.
connect_find ==
  /\ pc \in {"ctor_find", "re_find"}
  /\ \E r \in {"dev", "none", "raise"} :
       /\ usb' = Append(usb, UsbCall("find", IF r = "dev" THEN NewHandle ELSE 0, r))
       /\ self' = [self EXCEPT !.dev = CASE r = "dev" -> NewHandle
                                         [] r = "none" -> 0
                                         [] OTHER -> @]
       /\ IF r = "raise" THEN ConnectRaises("USBError")
          ELSE IF IsNotFound(r) THEN ConnectRaises("ValueError: Device not found")
          ELSE /\ pc' = IF pc = "ctor_find" THEN "ctor_claim" ELSE "re_claim"
               /\ UNCHANGED << result, exc, exit, output >>
  /\ UNCHANGED << mode, ncmds, nsends, configFile, args, config, locals, call,
                  packet_data, listing, visible,
                  lastGood >>

\* connect: self.dev.set_configuration()
connect_set_configuration ==
  /\ pc \in {"ctor_claim", "re_claim"}
  /\ \E r \in {"ok", "raise"} :
       /\ usb' = Append(usb, UsbCall("set_configuration", self.dev, r))
       /\ IF ClaimFailed(r) THEN ConnectRaises("USBError")
          ELSE /\ pc' = CASE pc = "re_claim" -> "write_2"
                          [] mode = "set" -> "call_send"
                          [] OTHER -> "ready"
               /\ UNCHANGED << result, exc, exit, output >>
  /\ UNCHANGED << mode, ncmds, nsends, configFile, args, config, locals, self,
                  call, packet_data, listing, visible,
                  lastGood >>

\* manual_set_color: success = device.send_color_packet(args.color, header, footer)
call_send ==
  /\ pc = "call_send"
  /\ call' = [hex_color |-> args.color, header |-> locals.header.s,
              footer |-> locals.footer.s]
  /\ nsends' = nsends + 1
  /\ result' = "none"
  /\ pc' = "build"
  /\ UNCHANGED << mode, ncmds, configFile, args, config, locals, self,
                  packet_data, usb, exc, exit, output, listing, visible,
                  lastGood >>

\* A caller other than manual_set_color calls send_color_packet on the
\* RGBDevice it constructed.
send_color_packet(hex_color, header, footer) ==
  /\ pc = "ready"
  /\ mode = "api"
  /\ nsends < MaxSends
  /\ call' = [hex_color |-> hex_color, header |-> header, footer |-> footer]
  /\ nsends' = nsends + 1
  /\ result' = "none"
  /\ exc' = "none"
  /\ packet_data' = << >>
  /\ pc' = "build"
  /\ UNCHANGED << mode, ncmds, configFile, args, config, locals, self, usb,
                  exit, output, listing, visible,
                  lastGood >>

\* send_color_packet, lines 59-65: the payload is built and decoded.
build_payload ==
  /\ pc = "build"
  /\ LET decoded == FromHex(FullPayload(call.hex_color, call.header, call.footer))
     IN IF decoded.ok
          THEN /\ packet_data' = decoded.bytes
               /\ pc' = "write_1"
               /\ UNCHANGED << result, exc, exit, output >>
          ELSE /\ Propagate("ValueError: Invalid Hex Data", TRUE)
               /\ UNCHANGED packet_data
  /\ UNCHANGED << mode, ncmds, nsends, configFile, args, config, locals, self,
                  call, usb, listing, visible,
                  lastGood >>

\* send_color_packet, lines 67-71 and 79: the first write.
write_attempt_1 ==
  /\ pc = "write_1"
  /\ IF self.dev = 0
       THEN \* if self.dev: is false, the function falls through to return False
            /\ SendReturns("False")
            /\ UNCHANGED << usb, exc, exit, output >>
       ELSE \E r \in {"ok", "USBError", "other"} :
              /\ usb' = Append(usb, UsbCall("write", self.dev, r))
              /\ IF r = "ok"
                   THEN /\ SendReturns("True")
                        /\ UNCHANGED << exc, exit, output >>
                 ELSE IF StartsRecovery(r)
                   THEN /\ pc' = "re_find"
                        /\ UNCHANGED << result, exc, exit, output >>
                 ELSE Propagate("Exception raised by write", TRUE)
  /\ UNCHANGED << mode, ncmds, nsends, configFile, args, config, locals, self,
                  call, packet_data, listing, visible,
                  lastGood >>

\* Mutant of write_attempt_2: the retry sends the color bytes alone.
write_attempt_2_ColorOnly ==
  /\ pc = "write_2"
  /\ \E r \in {"ok", "USBError", "other"} :
       /\ usb' = Append(usb, [UsbCall("write", self.dev, r) EXCEPT
                                !.data = FromHex(Lower(RemoveHash(call.hex_color))).bytes])
       /\ IF r = "ok"
            THEN /\ SendReturns("True")
                 /\ UNCHANGED << exc, exit, output >>
            ELSE /\ output' = Append(output, Msg("Failed to send packet", r))
                 /\ exc' = r
                 /\ SendReturns("False")
                 /\ UNCHANGED exit
  /\ UNCHANGED << mode, ncmds, nsends, configFile, args, config, locals, self,
                  call, packet_data, listing, visible, lastGood >>

\* send_color_packet, lines 75-79: the retry write after connect().
write_attempt_2 ==
  /\ pc = "write_2"
  /\ \E r \in {"ok", "USBError", "other"} :
       /\ usb' = Append(usb, UsbCall("write", self.dev, r))
       /\ IF r = "ok"
            THEN /\ SendReturns("True")
                 /\ UNCHANGED << exc, exit, output >>
            ELSE /\ output' = Append(output, Msg("Failed to send packet", r))
                 /\ exc' = r
                 /\ SendReturns("False")
                 /\ UNCHANGED exit
  /\ UNCHANGED << mode, ncmds, nsends, configFile, args, config, locals, self,
                  call, packet_data, listing, visible,
                  lastGood >>

\* manual_set_color, lines 127-132.
check_success ==
  /\ pc = "check_success"
  /\ IF ShouldSave(result)
       THEN /\ output' = Append(output, Msg("Successfully set color", "none"))
            /\ pc' = "save_config"
            /\ UNCHANGED exit
       ELSE /\ output' = Append(output, Msg("Device found, but failed to send packet.", "none"))
            /\ pc' = "idle"
            /\ exit' = "returned"
  /\ UNCHANGED << mode, ncmds, nsends, configFile, args, config, locals, self,
                  call, packet_data, usb, result, exc, listing, visible,
                  lastGood >>

\* save_config(vid, pid, endpoint, header, footer): open(CONFIG_FILE, 'w')
\* may fail, and json.dump may fail after the file was truncated.
save_config ==
  /\ pc = "save_config"
  /\ \E r \in {"ok", "open_fails", "write_fails"} :
       CASE r = "ok" ->
              /\ configFile' = File("record", ConfigData(locals.vid, locals.pid,
                                      locals.endpoint, locals.header, locals.footer))
              /\ output' = Append(output, Msg("Configuration saved", "none"))
              /\ pc' = "idle"
              /\ exit' = "returned"
              /\ lastGood' = [set |-> TRUE, vid |-> self.vid, pid |-> self.pid,
                               endpoint |-> self.endpoint,
                               header |-> call.header, footer |-> call.footer]
              /\ UNCHANGED exc
         [] r = "open_fails" ->
              /\ CaughtByCommand("OSError")
              /\ UNCHANGED << configFile, lastGood >>
         [] r = "write_fails" ->
              /\ CaughtByCommand("OSError")
              /\ configFile' = File("corrupt", EmptyDict)
              /\ lastGood' = NoLastGood
  /\ UNCHANGED << mode, ncmds, nsends, args, config, locals, self, call,
                  packet_data, usb, result, listing, visible >>

(***************************************************************************)
(* scan_devices                                                            *)
(***************************************************************************)
\* The line printed for one device, << >> when the bare except swallowed it.
ScanLine(kind) ==
  CASE kind = "named" -> << "Product" >>
    [] kind = "noname" -> << "Unknown" >>
    [] OTHER -> << >>

RECURSIVE ScanLines(_)
ScanLines(devices) ==
  IF devices = << >> THEN << >>
  ELSE ScanLine(Head(devices)) \o ScanLines(Tail(devices))

\* The scan command: python main.py scan
scan_devices ==
  /\ AtRest
  /\ ncmds < MaxCmds
  /\ mode' = "scan"
  /\ ncmds' = ncmds + 1
  /\ nsends' = 0
  /\ args' = NoArgs
  /\ config' = Dict(EmptyDict)
  /\ locals' = NoLocals
  /\ self' = NoSelf
  /\ call' = NoCall
  /\ packet_data' = << >>
  /\ usb' = << >>
  /\ result' = "none"
  /\ pc' = "idle"
  /\ \/ \* usb.core.find(find_all=True) raises (no backend, no permission)
        /\ exit' = "crashed"
        /\ exc' = "USBError"
        /\ output' = << >>
        /\ listing' = << >>
        /\ visible' = << >>
     \/ \E devices \in DeviceLists :
          /\ listing' = ScanLines(devices)
          /\ visible' = devices
          /\ output' = IF Len(ScanLines(devices)) = 0
                         THEN << Msg("No devices found or permission denied", "none") >>
                         ELSE << >>
          /\ exit' = "returned"
          /\ exc' = "none"
  /\ UNCHANGED << configFile, lastGood >>

(***************************************************************************)
(* Specification                                                           *)
(***************************************************************************)
\* Arguments of a direct use of the class.
ApiColors == { << "f", "f", "0", "0", "0", "0" >>, << "G", "G", "0", "0", "0", "0" >> }

Next ==
  \/ \E v \in ArgVids, p \in ArgPids, c \in Colors :
       manual_set_color([vid |-> v, pid |-> p, color |-> c])
  \/ load_config
  \/ resolve
  \/ RGBDevice(IntV(1046), IntV(29593), IntV(DEFAULT_ENDPOINT))
  \/ RGBDevice_init
  \/ connect_find
  \/ connect_set_configuration
  \/ call_send
  \/ \E c \in ApiColors :
       send_color_packet(c, DEFAULT_PACKET_HEADER, DEFAULT_PACKET_FOOTER)
  \/ build_payload
  \/ write_attempt_1
  \/ write_attempt_2
  \/ check_success
  \/ save_config
  \/ scan_devices

Spec == Init /\ [][Next]_vars

(***************************************************************************)
(* Vocabulary of the properties                                            *)
(***************************************************************************)
Last(seq) == seq[Len(seq)]

\* The USB calls of send number k on the current RGBDevice (k = 0: the
\* connect() of the constructor), as sets of positions in the history.
CallsOf(k) == {i \in DOMAIN usb : usb[i].send = k}
WritesOf(k) == {i \in CallsOf(k) : usb[i].op = "write"}
FindsOf(k) == {i \in CallsOf(k) : usb[i].op = "find"}
ClaimsOf(k) == {i \in CallsOf(k) : usb[i].op = "set_configuration"}

Min(S) == CHOOSE x \in S : \A y \in S : x <= y

\* Send number k has returned or raised.
SendOver(k) == k < nsends \/ (k = nsends /\ result # "none")

\* The handle was claimed before position i of the history.
ClaimedBefore(h, i) ==
  \E j \in 1..(i - 1) :
    usb[j].op = "set_configuration" /\ usb[j].h = h /\ usb[j].res = "ok"

\* A write on the handle raised a transport error before position i of the
\* history.
ErroredBefore(h, i) ==
  \E j \in 1..(i - 1) : usb[j].op = "write" /\ usb[j].h = h /\ usb[j].res = "USBError"

\* The set command is over.
SetDone == mode = "set" /\ pc = "idle"

(***************************************************************************)
(* C1: in one send_color_packet call, a USBError on the first write starts *)
(* exactly one recovery cycle: one find with the same vid/pid, then at most*)
(* one retry write, on the handle that find returned.  Whatever the USB    *)
(* calls do, a send makes at most two writes and at most one reconnect, and*)
(* it reconnects only after a USBError on its first write.                 *)
(***************************************************************************)
C1_OneRecoveryCycle ==
  \A k \in 1..nsends :
    /\ Cardinality(WritesOf(k)) <= 2
    /\ Cardinality(FindsOf(k)) <= 1
    /\ \A i \in FindsOf(k) :
         /\ WritesOf(k) # {}
         /\ Min(WritesOf(k)) < i
         /\ usb[Min(WritesOf(k))].res = "USBError"
         /\ usb[i].vid = usb[1].vid
         /\ usb[i].pid = usb[1].pid
    /\ \A j \in WritesOf(k) :
         j # Min(WritesOf(k)) =>
           \E i \in FindsOf(k) :
             /\ i < j
             /\ usb[i].res = "dev"
             /\ usb[j].h = usb[i].h
             /\ \A m \in 1..(i - 1) : usb[m].h # usb[i].h
    /\ (SendOver(k) /\ WritesOf(k) # {} /\ usb[Min(WritesOf(k))].res = "USBError")
         => Cardinality(FindsOf(k)) = 1

\* A send whose first write raised USBError, reconnected and retried.
C1_Witness ==
  /\ nsends >= 1
  /\ result = "True"
  /\ Cardinality(WritesOf(nsends)) = 2
  /\ Cardinality(FindsOf(nsends)) = 1
  /\ usb[Min(WritesOf(nsends))].res = "USBError"

(***************************************************************************)
(* C2: every send on a built payload ends in success or in failure, and in *)
(* success exactly when the first write or the retry write completed       *)
(* without error; no error raised by a write gives a third outcome.        *)
(***************************************************************************)
C2_TwoOutcomes ==
  (nsends >= 1 /\ result # "none" /\ packet_data # << >>) =>
    /\ result \in {"True", "False"}
    /\ result = "True" <=> \E i \in WritesOf(nsends) : usb[i].res = "ok"

(***************************************************************************)
(* C3: across the sends on one RGBDevice, no write goes to a handle on     *)
(* which a write has failed, nor to a handle whose claim did not succeed:  *)
(* after a failure every write goes through a fresh find and               *)
(* set_configuration.                                                      *)
(***************************************************************************)
C3_NoWriteOnInvalidHandle ==
  \A i \in DOMAIN usb :
    usb[i].op = "write" =>
      /\ ~ErroredBefore(usb[i].h, i)
      /\ ClaimedBefore(usb[i].h, i)

C5_FailedSetKeepsConfig ==
  /\ [](pc = "save_config" => (mode = "set" /\ result = "True"))
  /\ [][configFile' # configFile => (pc = "save_config" /\ result = "True")]_vars

\* A set command whose two writes failed, with a record on file.
C5_Witness ==
  /\ SetDone
  /\ exit = "returned"
  /\ result = "False"
  /\ Cardinality(WritesOf(1)) = 2
  /\ configFile.kind = "record"

(***************************************************************************)
(* C6: when the joined header + color + footer is not valid hexadecimal,   *)
(* the set command raises the invalid-payload error before any device I/O: *)
(* no find, no set_configuration and no write was made.                    *)
(***************************************************************************)
C6_InvalidPayloadBeforeIO ==
  (mode = "set" /\ exc = "ValueError: Invalid Hex Data") => usb = << >>

(***************************************************************************)
(* C7: no error ends a command with an unhandled fault: whatever reading   *)
(* the configuration, the USB calls and writing the configuration do, the  *)
(* set and scan commands print a diagnostic and return.                    *)
(***************************************************************************)
C7_NoUnhandledFault == exit # "crashed"

(***************************************************************************)
(* C8: connect calls set_configuration exactly once on the device find     *)
(* returned, right after the find; when it raises, connect raises: the     *)
(* claim is not retried and no USB call follows it in that call - neither  *)
(* in the constructor nor in the recovery cycle of a send.                 *)
(***************************************************************************)
C8_ClaimOnceAndFatal ==
  /\ \A i \in DOMAIN usb :
       (usb[i].op = "find" /\ usb[i].res = "dev") =>
         /\ Cardinality({j \in DOMAIN usb :
               usb[j].op = "set_configuration" /\ usb[j].h = usb[i].h}) <= 1
         /\ i < Len(usb) =>
              /\ usb[i + 1].op = "set_configuration"
              /\ usb[i + 1].h = usb[i].h
              /\ usb[i + 1].send = usb[i].send
         /\ i = Len(usb) => pc \in {"ctor_claim", "re_claim"}
  /\ \A i \in DOMAIN usb :
       usb[i].op = "set_configuration" =>
         /\ i > 1
         /\ usb[i - 1].op = "find"
         /\ usb[i - 1].h = usb[i].h
  /\ \A i \in DOMAIN usb :
       (usb[i].op = "set_configuration" /\ usb[i].res # "ok") =>
         /\ \A j \in CallsOf(usb[i].send) : j <= i
         /\ usb[i].send = 0 => (pc = "idle" /\ exc = "USBError" /\ nsends = 0)
         /\ (usb[i].send >= 1 /\ usb[i].send = nsends) => result = "False"
  /\ \A k \in 0..nsends :
       \A i \in FindsOf(k), j \in WritesOf(k) :
         (i < j /\ usb[j].h = usb[i].h) => ClaimedBefore(usb[j].h, j)

\* The claim failed inside the recovery cycle of a send, which returned False.
C8_Witness ==
  /\ nsends >= 1
  /\ result = "False"
  /\ Last(usb).op = "set_configuration"
  /\ Last(usb).res = "raise"
  /\ Last(usb).send = nsends

(***************************************************************************)
(* C9: when the first find of a set command matches no device, the command *)
(* prints the not-found error and returns without success: the find is not *)
(* repeated, nothing is claimed and nothing is written.                    *)
(***************************************************************************)
C9_NotFoundIsFinal ==
  (mode = "set" /\ usb # << >> /\ usb[1].op = "find" /\ usb[1].res = "none") =>
    /\ Len(usb) = 1
    /\ pc = "idle"
    /\ exit = "returned"
    /\ exc = "ValueError: Device not found"
    /\ Last(output) = Msg("Error", "ValueError: Device not found")
    /\ result = "none"
    /\ nsends = 0

\* A set command whose first find returned None.
C9_Witness ==
  /\ SetDone
  /\ Len(usb) = 1
  /\ usb[1].res = "none"
  /\ exit = "returned"

(***************************************************************************)
(* C10: building the payload raises ValueError('Invalid Hex Data')         *)
(* whenever the joined header + color + footer has odd length or the color *)
(* holds a character that is not a hexadecimal digit, one leading '#'      *)
(* aside; no write is made then.                                           *)
(***************************************************************************)
\* The color without its one optional leading '#'.
WithoutLeadingHash(color) ==
  IF color # << >> /\ Head(color) = "#" THEN Tail(color) ELSE color

MalformedInput(c) ==
  \/ Len(c.header \o WithoutLeadingHash(c.hex_color) \o c.footer) % 2 = 1
  \/ \E i \in DOMAIN WithoutLeadingHash(c.hex_color) :
       ~IsHexDigit(WithoutLeadingHash(c.hex_color)[i])

C10_MalformedInputRejected ==
  (nsends >= 1 /\ pc # "build" /\ MalformedInput(call)) =>
    /\ exc = "ValueError: Invalid Hex Data"
    /\ result = "raised"
    /\ WritesOf(nsends) = {}

(***************************************************************************)
(* Payload construction on its own: an RGBDevice has been constructed and  *)
(* claimed, and send_color_packet is called with any color over            *)
(* ColorAlphabet of at most MaxColorLen characters.                        *)
(***************************************************************************)
ColorAlphabet == {"1", "a", "A", "#", "G", " "}

AnyColors == UNION {[1..k -> ColorAlphabet] : k \in 0..MaxColorLen}

Templates ==
  { [header |-> DEFAULT_PACKET_HEADER, footer |-> DEFAULT_PACKET_FOOTER],
    [header |-> << "0", "1" >>, footer |-> << "1", "8", "0" >>] }

ConstructedDevice ==
  [vid |-> 1046, pid |-> 29593, endpoint |-> IntV(DEFAULT_ENDPOINT), dev |-> 1]

ConstructionHistory ==
  << [op |-> "find", h |-> 1, res |-> "dev", vid |-> 1046, pid |-> 29593,
      ep |-> NoneV, data |-> << >>, send |-> 0],
     [op |-> "set_configuration", h |-> 1, res |-> "ok", vid |-> 1046,
      pid |-> 29593, ep |-> IntV(DEFAULT_ENDPOINT), data |-> << >>, send |-> 0] >>

InitPayload ==
  /\ pc = "build"
  /\ mode = "api"
  /\ ncmds = 1
  /\ nsends = 1
  /\ configFile = File("absent", EmptyDict)
  /\ args = NoArgs
  /\ config = Dict(EmptyDict)
  /\ locals = [NoLocals EXCEPT !.vid = IntV(1046), !.pid = IntV(29593),
                               !.endpoint = IntV(DEFAULT_ENDPOINT)]
  /\ self = ConstructedDevice
  /\ \E c \in AnyColors, t \in Templates :
       call = [hex_color |-> c, header |-> t.header, footer |-> t.footer]
  /\ packet_data = << >>
  /\ usb = ConstructionHistory
  /\ result = "none"
  /\ exc = "none"
  /\ exit = "none"
  /\ output = << >>
  /\ listing = << >>
  /\ visible = << >>
  /\ lastGood = NoLastGood

NextPayload ==
  \/ build_payload
  \/ write_attempt_1
  \/ connect_find
  \/ connect_set_configuration
  \/ write_attempt_2

SpecPayload == InitPayload /\ [][NextPayload]_vars

(***************************************************************************)
(* C11: for every hex color c and fixed header and footer, the payload     *)
(* built from '#' + c equals the payload built from c, and the payload     *)
(* built from c equals the payload built from any re-casing of the hex     *)
(* letters of c (both are built, or both are refused).                     *)
(***************************************************************************)
IsHexColor(c) == \A i \in DOMAIN c : IsHexDigit(c[i])

Recasings(c) ==
  {d \in [1..Len(c) -> ColorAlphabet] : \A i \in 1..Len(c) : LowerChar(d[i]) = LowerChar(c[i])}

\* What build_payload made of the current call.
Built ==
  IF exc = "ValueError: Invalid Hex Data"
    THEN [ok |-> FALSE, bytes |-> << >>]
    ELSE [ok |-> TRUE, bytes |-> packet_data]

C11_HashAndCaseInsensitive ==
  (nsends >= 1 /\ pc # "build" /\ IsHexColor(call.hex_color)) =>
    \A d \in Recasings(call.hex_color) :
      /\ FromHex(FullPayload(d, call.header, call.footer)) = Built
      /\ FromHex(FullPayload(<< "#" >> \o d, call.header, call.footer)) = Built

\* A payload was built from a hex color with letters of both cases.
C11_Witness ==
  /\ pc = "write_1"
  /\ call.hex_color = << "a", "A" >>
  /\ packet_data # << >>

(***************************************************************************)
(* C12: in the set command vid and pid are each the command-line override  *)
(* when one is given (a non-empty string) and the persisted value          *)
(* otherwise; without overrides the find uses exactly the persisted        *)
(* vid/pid; endpoint, header and footer are the persisted ones, and        *)
(* endpoint 2 and the default template stand in only for the fields the    *)
(* persisted configuration does not supply.                                *)
(***************************************************************************)
\* The value CONFIG_FILE holds for a key (Absent without a readable record).
Persisted(key) == IF configFile.kind = "record" THEN configFile.d[key] ELSE Absent

\* manual_set_color has resolved its values and has not yet saved them.
Resolved ==
  /\ mode = "set"
  /\ pc \in {"init", "ctor_find", "ctor_claim", "call_send", "build", "write_1",
             "re_find", "re_claim", "write_2", "check_success", "save_config"}

C12_Resolution ==
  Resolved =>
    /\ locals.vid = IF Truthy(args.vid) THEN args.vid ELSE Persisted("vid")
    /\ locals.pid = IF Truthy(args.pid) THEN args.pid ELSE Persisted("pid")
    /\ locals.endpoint =
         IF Persisted("endpoint").t = "absent" THEN IntV(2) ELSE Persisted("endpoint")
    /\ locals.header =
         IF Persisted("packet_header").t = "absent"
           THEN StrV(DEFAULT_PACKET_HEADER) ELSE Persisted("packet_header")
    /\ locals.footer =
         IF Persisted("packet_footer").t = "absent"
           THEN StrV(DEFAULT_PACKET_FOOTER) ELSE Persisted("packet_footer")
    /\ \A i \in DOMAIN usb :
         /\ usb[i].op = "find" =>
              /\ usb[i].vid = ParseIdentifier(locals.vid).n
              /\ usb[i].pid = ParseIdentifier(locals.pid).n
              /\ (~Truthy(args.vid) /\ ~Truthy(args.pid)) =>
                   /\ usb[i].vid = ParseIdentifier(Persisted("vid")).n
                   /\ usb[i].pid = ParseIdentifier(Persisted("pid")).n
         /\ usb[i].op = "write" => usb[i].ep = locals.endpoint

\* A set command without overrides found its device with the persisted ids and
\* writes with the persisted endpoint and template.
C12_Witness ==
  /\ mode = "set"
  /\ pc = "write_1"
  /\ ~Truthy(args.vid)
  /\ ~Truthy(args.pid)
  /\ usb[1].vid = 1046
  /\ Persisted("endpoint") = IntV(2)
  /\ locals.header = Persisted("packet_header")

(***************************************************************************)
(* C13: after a successful set with the identifiers given as hex strings on*)
(* the command line, the persisted configuration holds vid and pid as the  *)
(* integers the device was located with, not as the strings typed.         *)
(***************************************************************************)
C13_PersistedIdsAreIntegers ==
  (SetDone /\ output # << >> /\ Last(output) = Msg("Configuration saved", "none")) =>
    /\ configFile.d.vid = IntV(self.vid)
    /\ configFile.d.pid = IntV(self.pid)

(***************************************************************************)
(* C14: after a successful set that wrote the configuration, a set command *)
(* without vid/pid overrides resolves the same integer vid and pid for its *)
(* find, the same endpoint and the same header and footer as the send that *)
(* wrote the configuration, whether the identifiers were hex strings or    *)
(* integers.                                                               *)
(***************************************************************************)
C14_RoundTrip ==
  (/\ mode = "set"
   /\ lastGood.set
   /\ ~Truthy(args.vid)
   /\ ~Truthy(args.pid)
   /\ pc \notin {"load_config", "resolve", "init"}) =>
    /\ self.vid = lastGood.vid
    /\ self.pid = lastGood.pid
    /\ self.endpoint = lastGood.endpoint
    /\ locals.header = StrV(lastGood.header)
    /\ locals.footer = StrV(lastGood.footer)
    /\ \A i \in DOMAIN usb :
         usb[i].op = "find" => (usb[i].vid = lastGood.vid /\ usb[i].pid = lastGood.pid)

\* A set command without overrides runs on a configuration that an earlier set
\* command wrote from identifiers typed as hex strings.
C14_Witness ==
  /\ mode = "set"
  /\ lastGood.set
  /\ ~Truthy(args.vid)
  /\ ~Truthy(args.pid)
  /\ pc = "write_1"
  /\ configFile.kind = "record"
  /\ configFile.d.vid.t = "str"
  /\ configFile.d.pid.t = "str"

(***************************************************************************)
(* C15: scan_devices reports every device the host shows: a device whose   *)
(* product string cannot be read is still reported, as "Unknown", and the  *)
(* other devices are reported as usual.                                    *)
(***************************************************************************)
C15_ScanReportsEveryDevice ==
  (mode = "scan" /\ exit = "returned") =>
    /\ Len(listing) = Len(visible)
    /\ \A i \in 1..Len(visible) :
         i <= Len(listing) =>
           listing[i] = IF visible[i] = "named" THEN "Product" ELSE "Unknown"

(***************************************************************************)
(* C16 as stated: the default template is header 018500000014030400 and a  *)
(* footer of exactly 107 hex digits, zeros around the digits 18.           *)
(***************************************************************************)
\* The set command runs on the default template.
OnDefaultTemplate ==
  /\ Resolved
  /\ Persisted("packet_header").t = "absent"
  /\ Persisted("packet_footer").t = "absent"

HeaderAsSpecified ==
  locals.header.s =
    << "0", "1", "8", "5", "0", "0", "0", "0", "0", "0", "1", "4", "0", "3", "0", "4", "0", "0" >>

\* The footer is n characters long: zeros, but for one "18".
ZerosAround18(footer, n) ==
  /\ Len(footer) = n
  /\ \E k \in 1..(n - 1) :
       /\ footer[k] = "1"
       /\ footer[k + 1] = "8"
       /\ \A i \in (1..n) \ {k, k + 1} : footer[i] = "0"

C16_Footer107 ==
  OnDefaultTemplate => (HeaderAsSpecified /\ ZerosAround18(locals.footer.s, 107))

(***************************************************************************)
(* C16 amended: the default template is header 018500000014030400 and a    *)
(* footer of exactly 104 hex digits: 26 zeros, the digits 18, 76 zeros.    *)
(***************************************************************************)
C16_Footer104 ==
  OnDefaultTemplate =>
    /\ HeaderAsSpecified
    /\ ZerosAround18(locals.footer.s, 104)
    /\ locals.footer.s[27] = "1"
    /\ locals.footer.s[28] = "8"

\* A set command built its payload from the default template.
C16_Witness ==
  /\ OnDefaultTemplate
  /\ pc = "write_1"
  /\ Len(packet_data) = 64

(***************************************************************************)
(* C17: the identity an RGBDevice holds is a pair of 16-bit unsigned       *)
(* integers: whatever vid/pid the constructor accepted, self.vid and       *)
(* self.pid are in 0..65535 before a find is made with them.               *)
(***************************************************************************)
C17_IdentityIs16Bit ==
  \A i \in DOMAIN usb :
    usb[i].op = "find" => (usb[i].vid \in 0..65535 /\ usb[i].pid \in 0..65535)

(***************************************************************************)
(* C18: within one send the retry write carries the same bytes to the same *)
(* endpoint as the failed first write, on a device found with the same     *)
(* vid/pid: the payload is built once, before the first write, and the     *)
(* recovery cycle does not touch it.                                       *)
(***************************************************************************)
C18_RetryCarriesSamePayload ==
  /\ \A k \in 1..nsends :
       /\ \A i \in WritesOf(k), j \in WritesOf(k) :
            /\ usb[i].data = usb[j].data
            /\ usb[i].ep = usb[j].ep
       /\ \A i \in FindsOf(k) : (usb[i].vid = usb[1].vid /\ usb[i].pid = usb[1].pid)
  /\ \A i \in WritesOf(nsends) :
       /\ usb[i].data = packet_data
       /\ usb[i].ep = self.endpoint
  /\ pc = "write_1" =>
       packet_data = FromHex(FullPayload(call.hex_color, call.header, call.footer)).bytes

\* A send whose first write failed made its retry write.
C18_Witness ==
  /\ nsends >= 1
  /\ Cardinality(WritesOf(nsends)) = 2
  /\ usb[Min(WritesOf(nsends))].res = "USBError"
  /\ Last(usb).op = "write"
  /\ Last(usb).data # << >>

====
